---- MODULE Spec2Model ----
(***************************************************************************)
(* Model of the equipment inventory application (src/app.py, with the     *)
(* earlier revision src/app1.py): the in-memory tables of InventoryApp,   *)
(* the JSON files they are saved to, the widgets whose content feeds the  *)
(* handlers, and one action per handler.                                  *)
(*                                                                         *)
(* Strings typed by the user are drawn from small sets.  A date string    *)
(* "dd.mm.yyyy" is the tuple <<dd, mm, yyyy>> of the numbers as typed,    *)
(* the empty string is <<>>.  Python lists are sequences; the history dict *)
(* is a sequence of [serial, records] items in key insertion order.       *)
(* List positions stored in row tags are 0-based as in the source.        *)
(***************************************************************************)
EXTENDS Integers, Sequences, FiniteSets, TLC

VARIABLES
    inventory_data,         \* self.inventory_data: list of equipment records
    inventory_file,         \* content of inventory.json
    history_data,           \* self.history_data: serial -> list of entries
    history_file,           \* content of history.json
    employees_list,         \* self.employees_list
    equipment_types,        \* self.equipment_types
    all_employees_listbox,  \* names shown in the employee listbox
    equipment_tree,         \* types shown in the equipment type table
    all_tree,               \* rows of the "show all" table, with their tags
    full_history_tree,      \* rows of the full history table
    transfers_start_var,    \* start date field of the transfers tab
    transfers_end_var,      \* end date field of the transfers tab
    transfers_tree,         \* rows of the transfers report table
    io_faults,              \* environment: may a file write fail
    added_with,             \* ghost: what add_equipment stored per record
    last,                   \* ghost: the last handler that ran and its outcome
    steps,                  \* ghost: number of handlers run so far
    search_tree,            \* rows of the search table, with their tags
    employee_tree,          \* rows of the employee's equipment table (no tags)
    backups,                \* the files in the backups directory
    clock,                  \* the second datetime.now() is in
    auto_save_pending,      \* number of auto_save callbacks root.after holds
    auto_save_runs,         \* ghost: parity of the number of auto_save runs
    other_instance,         \* in-memory state of a second running instance
    pc,                     \* file operations the running handler has yet to do
    temp_file,              \* state of history.json.tmp
    torn,                   \* files that hold a partially written content
    killed                  \* the process was killed

vars == <<inventory_data, inventory_file, history_data, history_file,
          employees_list, equipment_types, all_employees_listbox,
          equipment_tree, all_tree, full_history_tree, transfers_start_var,
          transfers_end_var, transfers_tree, io_faults, added_with, last,
          steps, search_tree, employee_tree, backups, clock,
          auto_save_pending, auto_save_runs, other_instance, pc, temp_file,
          torn,
          killed>>

\* what the handlers of the main window leave alone
env_vars == <<search_tree, employee_tree, backups, clock, auto_save_pending,
              auto_save_runs, other_instance, pc, temp_file, torn, killed>>

data_vars == <<inventory_data, history_data, employees_list, equipment_types>>

----------------------------------------------------------------------------
(* Bounds and input domains *)

MaxSteps == 3
MaxInv == 2

Names == {"A", "B"}
Serials == {"S1", "S2"}
Types == {"T1", "T2"}

D1 == <<15, 6, 2024>>
D2 == <<1, 7, 2024>>
D3 == <<31, 12, 2024>>
BadDate == <<31, 2, 2024>>
NoDate == <<>>

ValidDates == {D1, D2, D3}
\* what the user types into a date field of a record or of the transfer dialog
DateInputs == {D1, D3, BadDate, NoDate}
\* what the user types into the period fields of the transfers tab
StartInputs == {D1, D2, BadDate}
EndInputs == {D2, D3, NoDate}
NameInputs == Names \cup {"", " "}
SerialInputs == Serials \cup {""}
TypeInputs == Types \cup {""}

----------------------------------------------------------------------------
(* Helpers over lists *)

Range(s) == {s[i] : i \in DOMAIN s}

NoDuplicates(s) == \A i, j \in DOMAIN s : i /= j => s[i] /= s[j]

\* list.remove(x) / del list[i]
RemoveAt(s, i) == SubSeq(s, 1, i - 1) \o SubSeq(s, i + 1, Len(s))

\* 1-based position of the first element satisfying Test, 0 when none
FirstPos(s, Test(_)) ==
    IF \E i \in DOMAIN s : Test(s[i])
    THEN CHOOSE i \in DOMAIN s : Test(s[i]) /\ \A j \in 1..(i - 1) : ~Test(s[j])
    ELSE 0

Filter(s, Test(_)) == SelectSeq(s, Test)

\* str.strip() on the strings the user can type
Strip(x) == IF x = " " THEN "" ELSE x

----------------------------------------------------------------------------
(* Dates: datetime.strptime(text, "%d.%m.%Y") and datetime comparison *)

IsLeap(y) == (y % 4 = 0 /\ y % 100 /= 0) \/ y % 400 = 0

DaysInMonth(m, y) ==
    IF m = 2 THEN (IF IsLeap(y) THEN 29 ELSE 28)
    ELSE IF m \in {4, 6, 9, 11} THEN 30 ELSE 31

\* strptime returns a datetime; otherwise it raises ValueError
Parses(d) ==
    /\ Len(d) = 3
    /\ d[3] \in 1..9999
    /\ d[2] \in 1..12
    /\ d[1] \in 1..DaysInMonth(d[2], d[3])

\* the parsed datetime, as a number that orders like datetime does
DateOrd(d) == (d[3] * 12 + (d[2] - 1)) * 31 + (d[1] - 1)

\* the typed texts compared field by field instead of the parsed dates
InWindow_text(d, start, end) ==
    LET Leq(x, y) == \/ x[1] < y[1]
                     \/ x[1] = y[1] /\ x[2] < y[2]
                     \/ x[1] = y[1] /\ x[2] = y[2] /\ x[3] <= y[3]
    IN  Leq(start, d) /\ Leq(d, end)

\* start_dt <= transfer_date <= end_dt
InWindow(d, start, end) ==
    DateOrd(start) <= DateOrd(d) /\ DateOrd(d) <= DateOrd(end)

----------------------------------------------------------------------------
(* The history dict *)

HistoryKeys(h) == {h[i].serial : i \in DOMAIN h}

KeyPos(h, serial) == FirstPos(h, LAMBDA it : it.serial = serial)

\* get_history_for_equipment: self.history_data.get(serial_number, [])
get_history_for_equipment(h, serial) ==
    IF serial \in HistoryKeys(h) THEN h[KeyPos(h, serial)].records ELSE <<>>

Entry(assignment, date) == [assignment |-> assignment, date |-> date]

\* add_to_history that replaces the list of the serial by the new entry
add_to_history_overwrite(h, serial_number, assignment, date) ==
    IF serial_number = "" \/ assignment = "" THEN h
    ELSE LET h1 == IF serial_number \in HistoryKeys(h) THEN h
                   ELSE Append(h, [serial |-> serial_number, records |-> <<>>])
         IN  [h1 EXCEPT ![KeyPos(h1, serial_number)].records =
                            <<Entry(assignment, date)>>]

\* add_to_history without the test `entry not in` before the append
add_to_history_always(h, serial_number, assignment, date) ==
    IF serial_number = "" \/ assignment = "" THEN h
    ELSE LET h1 == IF serial_number \in HistoryKeys(h) THEN h
                   ELSE Append(h, [serial |-> serial_number, records |-> <<>>])
         IN  [h1 EXCEPT ![KeyPos(h1, serial_number)].records =
                            Append(@, Entry(assignment, date))]

\* add_to_history, the in-memory effect
add_to_history(h, serial_number, assignment, date) ==
    IF serial_number = "" \/ assignment = "" THEN h
    ELSE LET h1 == IF serial_number \in HistoryKeys(h) THEN h
                   ELSE Append(h, [serial |-> serial_number, records |-> <<>>])
             i == KeyPos(h1, serial_number)
             entry == Entry(assignment, date)
         IN  IF entry \in Range(h1[i].records) THEN h1
             ELSE [h1 EXCEPT ![i].records = Append(@, entry)]

\* add_to_history calls save_history only when it appended an entry
HistoryAppended(h, serial_number, assignment, date) ==
    add_to_history(h, serial_number, assignment, date) /= h

\* a rename that does not reach the history
RenameInHistory_skipped(h, old_name, new_name) == h

\* a rename loop that stops at the first matching entry of each serial
RenameInHistory_first(h, old_name, new_name) ==
    [i \in DOMAIN h |->
        [h[i] EXCEPT !.records =
            [j \in DOMAIN h[i].records |->
                IF /\ h[i].records[j].assignment = old_name
                   /\ \A k \in 1..(j - 1) : h[i].records[k].assignment /= old_name
                THEN [h[i].records[j] EXCEPT !.assignment = new_name]
                ELSE h[i].records[j]]]]

\* the rename loop of edit_selected_employee.save_edit over history_data
RenameInHistory(h, old_name, new_name) ==
    [i \in DOMAIN h |->
        [h[i] EXCEPT !.records =
            [j \in DOMAIN h[i].records |->
                IF h[i].records[j].assignment = old_name
                THEN [h[i].records[j] EXCEPT !.assignment = new_name]
                ELSE h[i].records[j]]]]

\* a rename loop that writes the renamed records as new ones, stamp included
RenameInInventory_restamped(inv, old_name, new_name) ==
    [i \in DOMAIN inv |->
        IF inv[i].assignment = old_name
        THEN [inv[i] EXCEPT !.assignment = new_name, !.created_datetime = 0]
        ELSE inv[i]]

\* the rename loop of edit_selected_employee.save_edit over inventory_data
RenameInInventory(inv, old_name, new_name) ==
    [i \in DOMAIN inv |->
        IF inv[i].assignment = old_name
        THEN [inv[i] EXCEPT !.assignment = new_name]
        ELSE inv[i]]

\* self.employees_list[self.employees_list.index(old_name)] = new_name
RenameInRoster(roster, old_name, new_name) ==
    [roster EXCEPT ![FirstPos(roster, LAMBDA n : n = old_name)] = new_name]

\* the list comprehension of delete_history_record and the del of an empty key
RemoveHistoryRecord(h, serial, assignment, date) ==
    LET i == KeyPos(h, serial)
        kept == Filter(h[i].records,
                       LAMBDA rec : ~(rec.assignment = assignment /\ rec.date = date))
    IN  IF kept = <<>> THEN RemoveAt(h, i)
        ELSE [h EXCEPT ![i].records = kept]

\* a deletion that does not look at the inventory
EmployeeInUse_unchecked(inv, employee_name) == FALSE

\* a deletion that is also blocked by the history entries naming the employee
EmployeeInUse_history(inv, employee_name) ==
    \/ \E i \in DOMAIN inv : inv[i].assignment = employee_name
    \/ \E i \in DOMAIN history_data :
           \E j \in DOMAIN history_data[i].records :
               history_data[i].records[j].assignment = employee_name

\* any(item.get('assignment', '') == employee_name for item in inventory_data)
EmployeeInUse(inv, employee_name) ==
    \E i \in DOMAIN inv : inv[i].assignment = employee_name

\* a deletion that does not look at the inventory
TypeInUse_unchecked(inv, selected_type) == FALSE

\* any(item.get('equipment_type') == selected_type for item in inventory_data)
TypeInUse(inv, selected_type) ==
    \E i \in DOMAIN inv : inv[i].equipment_type = selected_type


----------------------------------------------------------------------------
(* generate_transfers_report *)

\* [r for r in records if r.get("assignment") and r.get("date")]
valid_records(records) ==
    Filter(records, LAMBDA r : r.assignment /= "" /\ r.date /= NoDate)

\* place x behind every element of the sorted list s that is not later
InsertByDate(s, x) ==
    LET k == Cardinality({i \in DOMAIN s : DateOrd(s[i].date) <= DateOrd(x.date)})
    IN  SubSeq(s, 1, k) \o <<x>> \o SubSeq(s, k + 1, Len(s))

\* sorted(valid_records, key=strptime(date)): ascending and stable
RECURSIVE sorted_records(_)
sorted_records(rs) ==
    IF rs = <<>> THEN <<>>
    ELSE InsertByDate(sorted_records(SubSeq(rs, 1, Len(rs) - 1)), rs[Len(rs)])

\* the key function of sorted() raises ValueError on a date that does not parse
SortRaises(h) ==
    \E i \in DOMAIN h :
        /\ Len(valid_records(h[i].records)) >= 2
        /\ \E r \in Range(valid_records(h[i].records)) : ~Parses(r.date)

\* a lookup that leaves the type empty when no record has the serial
EqTypeOf_blank(inv, serial) ==
    LET i == FirstPos(inv, LAMBDA it : it.serial_number = serial)
    IN  IF i = 0 THEN "" ELSE inv[i].equipment_type

\* eq_type lookup: the type of the first record with that serial, else "-"
EqTypeOf(inv, serial) ==
    LET i == FirstPos(inv, LAMBDA it : it.serial_number = serial)
    IN  IF i = 0 THEN "-" ELSE inv[i].equipment_type

Transfer(inv, serial, prev, curr) ==
    [equipment_type |-> EqTypeOf(inv, serial), serial |-> serial,
     from |-> prev.assignment, to |-> curr.assignment, date |-> curr.date]

\* the inner loop: for i in range(1, len(sorted_records))
RECURSIVE WalkPairs(_, _, _, _, _, _)
WalkPairs(inv, serial, sorted, i, start, end) ==
    IF i > Len(sorted) THEN <<>>
    ELSE LET prev == sorted[i - 1]
             curr == sorted[i]
             rest == WalkPairs(inv, serial, sorted, i + 1, start, end)
         IN  IF ~Parses(curr.date) THEN rest
             ELSE IF prev.assignment = curr.assignment THEN rest
             ELSE IF InWindow(curr.date, start, end)
                  THEN <<Transfer(inv, serial, prev, curr)>> \o rest
                  ELSE rest

\* the timeline of one serial that the report walks
Timeline(inv, serial, records) == valid_records(records)

\* the body of the outer loop for one key of history_data
SerialTransfers(inv, item, start, end) ==
    LET timeline == Timeline(inv, item.serial, item.records)
    IN  IF Len(timeline) < 2 THEN <<>>
        ELSE WalkPairs(inv, item.serial, sorted_records(timeline), 2, start, end)

\* the order in which the collected transfers are put into the table
FinalOrder(transfers) == transfers

\* the outer loop: for serial, records in self.history_data.items()
RECURSIVE CollectTransfers(_, _, _, _, _)
CollectTransfers(inv, h, k, start, end) ==
    IF k > Len(h) THEN <<>>
    ELSE SerialTransfers(inv, h[k], start, end)
             \o CollectTransfers(inv, h, k + 1, start, end)

\* the transfers the handler shows when it does not raise
Transfers(inv, h, start, end) == FinalOrder(CollectTransfers(inv, h, 1, start, end))

\* the early return on a bad period
BadPeriod(start, end) ==
    \/ ~Parses(start)
    \/ ~Parses(end)
    \/ DateOrd(start) > DateOrd(end)

\* a handler that does not empty the table first
ClearTree_kept(tree) == tree

\* for item in self.transfers_tree.get_children(): delete(item)
ClearTree(tree) == <<>>

\* the table after the handler: cleared, then filled unless the sort raised
ReportTree(tree, inv, h, start, end) ==
    IF SortRaises(h) THEN ClearTree(tree)
    ELSE ClearTree(tree) \o Transfers(inv, h, start, end)

----------------------------------------------------------------------------
(* Widgets *)

\* tags=(str(self.inventory_data.index(item)),): first equal record, 0-based
IndexOf(inv, item) == FirstPos(inv, LAMBDA x : x = item) - 1

Row(item, tag) ==
    [equipment_type |-> item.equipment_type, serial_number |-> item.serial_number,
     assignment |-> item.assignment, date |-> item.date, tag |-> tag]

\* the rows show_all_data inserts into all_tree
AllRows(inv) == {Row(inv[i], IndexOf(inv, inv[i])) : i \in DOMAIN inv}

\* the rows show_full_history inserts into full_history_tree
HistoryRows(inv, h) ==
    UNION {{[equipment_type |-> EqTypeOf(inv, h[i].serial),
              serial |-> h[i].serial, assignment |-> h[i].records[j].assignment,
              date |-> h[i].records[j].date] : j \in DOMAIN h[i].records} :
           i \in DOMAIN h}


----------------------------------------------------------------------------
(* Initial state: the application has started on a data directory *)

\* load_equipment_types writes this list when equipment_types.json is absent
DefaultTypes == <<"T1">>

\* the date datetime.now() gives during the session
Today == D2

Item(equipment_type, serial_number, assignment, date, created_datetime) ==
    [equipment_type |-> equipment_type, serial_number |-> serial_number,
     assignment |-> assignment, date |-> date,
     created_datetime |-> created_datetime]

\* a data directory that is empty, or one left by an earlier session in
\* which S1 was added for A on D1 and then transferred to B on D3
StartData ==
    { [inventory |-> <<>>, history |-> <<>>, employees |-> <<>>, added |-> {}],
      [inventory |-> <<Item("T1", "S1", "B", D3, 0)>>,
       history |-> <<[serial |-> "S1",
                      records |-> <<Entry("A", D1), Entry("B", D3)>>]>>,
       employees |-> <<"A", "B">>,
       added |-> {[created |-> 0, assignment |-> "A", date |-> D1]}] }

NoOp ==
    [op |-> "start", outcome |-> "done", serial |-> "", employee |-> "",
     other |-> "", date |-> NoDate, created |-> -1, repeat |-> FALSE,
     saved |-> TRUE]

Op(op, outcome) == [NoOp EXCEPT !.op = op, !.outcome = outcome]

\* the outcomes of a file write
SaveOutcomes == IF io_faults THEN BOOLEAN ELSE {TRUE}

\* the state __init__ leaves after loading the files of directory d
InitFrom(d) ==
    /\ inventory_data = d.inventory
    /\ inventory_file = d.inventory
    /\ history_data = d.history
    /\ history_file = d.history
    /\ employees_list = d.employees
    /\ equipment_types = DefaultTypes
    /\ all_employees_listbox = Range(d.employees)
    /\ equipment_tree = Range(DefaultTypes)
    /\ all_tree = AllRows(d.inventory)
    /\ full_history_tree = HistoryRows(d.inventory, d.history)
    /\ transfers_start_var = Today
    /\ transfers_end_var = Today
    /\ transfers_tree = <<>>
    /\ added_with = d.added
    /\ last = NoOp
    /\ steps = 0

InitData == \E d \in StartData : InitFrom(d)

\* one instance, just started: the tables of the other tabs are empty, no
\* backup was made, schedule_auto_save has armed its timer, no write is under way
InitEnv ==
    /\ search_tree = {}
    /\ employee_tree = {}
    /\ backups = {}
    /\ clock = 0
    /\ auto_save_pending = 1
    /\ auto_save_runs = 0
    /\ other_instance = <<>>
    /\ pc = <<>>
    /\ temp_file = "absent"
    /\ torn = {}
    /\ killed = FALSE

\* file writes succeed
Init == InitData /\ io_faults = FALSE /\ InitEnv

----------------------------------------------------------------------------
(* Handlers *)

\* a handler that has already stored the name when it finds the input invalid
ReturnsWith_late(result) ==
    /\ last' = result
    /\ steps' = steps + 1
    /\ employees_list' = Append(employees_list, result.employee)
    /\ UNCHANGED <<inventory_data, inventory_file, history_data, history_file,
                   equipment_types, all_employees_listbox,
                   equipment_tree, all_tree, full_history_tree,
                   transfers_start_var, transfers_end_var, transfers_tree,
                   io_faults, added_with>>

\* a handler that returns before changing anything
ReturnsWith(result) ==
    /\ last' = result
    /\ steps' = steps + 1
    /\ UNCHANGED <<inventory_data, inventory_file, history_data, history_file,
                   employees_list, equipment_types, all_employees_listbox,
                   equipment_tree, all_tree, full_history_tree,
                   transfers_start_var, transfers_end_var, transfers_tree,
                   io_faults, added_with>>

Returns(op, outcome) == ReturnsWith(Op(op, outcome))

add_equipment ==
    /\ steps < MaxSteps
    /\ UNCHANGED env_vars
    /\ Len(inventory_data) < MaxInv
    /\ \E type_in \in TypeInputs, serial_in \in SerialInputs,
          assignment_in \in NameInputs, date \in DateInputs,
          ok_h \in SaveOutcomes, ok_d \in SaveOutcomes :
        LET equipment_type == Strip(type_in)
            serial_number == Strip(serial_in)
            assignment == Strip(assignment_in)
            item == Item(equipment_type, serial_number, assignment, date, steps + 1)
            inv1 == Append(inventory_data, item)
            h1 == add_to_history(history_data, serial_number, assignment, date)
            refused == [Op("add_equipment", "rejected") EXCEPT
                           !.serial = serial_number, !.other = equipment_type]
        IN  IF equipment_type = "" \/ serial_number = ""
            THEN ReturnsWith(refused)
            ELSE IF equipment_type \notin Range(equipment_types)
            THEN ReturnsWith(refused)
            ELSE /\ history_data' = h1
                 /\ history_file' =
                        IF HistoryAppended(history_data, serial_number, assignment, date)
                           /\ ok_h
                        THEN h1 ELSE history_file
                 /\ inventory_file' = IF ok_d THEN inv1 ELSE inventory_file
                 /\ inventory_data' = inv1
                 /\ all_tree' = IF ok_d THEN AllRows(inv1) ELSE all_tree
                 /\ all_employees_listbox' =
                        IF ok_d THEN Range(employees_list) ELSE all_employees_listbox
                 /\ added_with' =
                        IF assignment = "" THEN added_with
                        ELSE added_with \cup {[created |-> steps + 1,
                                               assignment |-> assignment,
                                               date |-> date]}
                 /\ last' = [Op("add_equipment", IF ok_d THEN "done" ELSE "failed")
                              EXCEPT
                                !.serial = serial_number, !.employee = assignment,
                                !.other = equipment_type, !.date = date,
                                !.created = steps + 1, !.saved = ok_d]
                 /\ steps' = steps + 1
                 /\ UNCHANGED <<employees_list, equipment_types, equipment_tree,
                                full_history_tree, transfers_start_var,
                                transfers_end_var, transfers_tree, io_faults>>

\* the values of the read-only employee combobox of the transfer dialog
TransferChoices == IF employees_list = <<>> THEN {""} ELSE Range(employees_list)

\* transfer_selected_item on the "show all" tab, then confirm_transfer
confirm_transfer ==
    /\ steps < MaxSteps
    /\ UNCHANGED env_vars
    /\ \E row \in all_tree, new_employee \in TransferChoices,
          transfer_date \in DateInputs,
          ok_h \in SaveOutcomes, ok_d \in SaveOutcomes :
        LET pos == FirstPos(inventory_data,
                            LAMBDA it : it.serial_number = row.serial_number)
        IN  IF pos = 0
            THEN Returns("transfer_selected_item", "rejected")
            ELSE IF new_employee = "" \/ transfer_date = NoDate
            THEN ReturnsWith([Op("confirm_transfer", "rejected") EXCEPT
                                 !.serial = row.serial_number,
                                 !.employee = new_employee, !.date = transfer_date])
            ELSE IF ~Parses(transfer_date)
            THEN ReturnsWith([Op("confirm_transfer", "rejected") EXCEPT
                                 !.serial = row.serial_number,
                                 !.employee = new_employee, !.date = transfer_date])
            ELSE LET equipment_item == inventory_data[pos]
                     inv1 == [inventory_data EXCEPT
                                 ![pos].assignment = new_employee,
                                 ![pos].date = transfer_date]
                     h1 == add_to_history(history_data, equipment_item.serial_number,
                                          new_employee, transfer_date)
                     file1 == IF ok_d THEN inv1 ELSE inventory_file
                 IN  /\ history_data' = h1
                     /\ history_file' = IF ok_h THEN h1 ELSE history_file
                     /\ inventory_file' = file1
                     /\ inventory_data' = file1
                     /\ all_tree' = AllRows(file1)
                     /\ all_employees_listbox' = Range(employees_list)
                     /\ last' = [Op("confirm_transfer", "done") EXCEPT
                                    !.serial = equipment_item.serial_number,
                                    !.employee = new_employee,
                                    !.other = equipment_item.assignment,
                                    !.date = transfer_date,
                                    !.created = equipment_item.created_datetime,
                                    !.saved = ok_d]
                     /\ steps' = steps + 1
                     /\ UNCHANGED <<employees_list, equipment_types, equipment_tree,
                                    full_history_tree, transfers_start_var,
                                    transfers_end_var, transfers_tree, io_faults,
                                    added_with>>


\* the columns of all_tree a double click can edit (model and comments left out)
EntryFields == {"equipment_type", "serial_number", "date"}

EntryInputs(field_name) ==
    IF field_name = "equipment_type" THEN TypeInputs
    ELSE IF field_name = "serial_number" THEN SerialInputs
    ELSE DateInputs

\* on_tree_double_click on all_tree, edit_cell, save_edit of the Entry editor
edit_cell_entry ==
    /\ steps < MaxSteps
    /\ UNCHANGED env_vars
    /\ \E row \in all_tree, field_name \in EntryFields, ok_d \in SaveOutcomes :
        \E new_value \in EntryInputs(field_name) :
            LET data_index == row.tag
                inv1 == [inventory_data EXCEPT ![data_index + 1][field_name] = new_value]
            IN  /\ data_index >= 0
                /\ data_index < Len(inventory_data)
                /\ all_tree' = (all_tree \ {row})
                                   \cup {[row EXCEPT ![field_name] = new_value]}
                /\ inventory_data' = inv1
                /\ inventory_file' = IF ok_d THEN inv1 ELSE inventory_file
                /\ last' = [Op("edit_cell_entry", "done") EXCEPT
                               !.serial = inv1[data_index + 1].serial_number,
                               !.other = field_name,
                               !.created = inv1[data_index + 1].created_datetime]
                /\ steps' = steps + 1
                /\ UNCHANGED <<history_data, history_file, employees_list,
                               equipment_types, all_employees_listbox,
                               equipment_tree, full_history_tree,
                               transfers_start_var, transfers_end_var,
                               transfers_tree, io_faults, added_with>>

\* on_tree_double_click on all_tree, edit_cell, save_edit of the Combobox editor
edit_cell_assignment ==
    /\ steps < MaxSteps
    /\ UNCHANGED env_vars
    /\ \E row \in all_tree, ok_h \in SaveOutcomes, ok_d \in SaveOutcomes :
        \E new_value \in {""} \cup Range(employees_list) \cup {row.assignment} :
            LET data_index == row.tag
                old_value == row.assignment
                inv1 == [inventory_data EXCEPT ![data_index + 1].assignment = new_value]
                serial_number == inv1[data_index + 1].serial_number
                logged == serial_number /= "" /\ old_value /= new_value
                h1 == IF logged
                      THEN add_to_history(history_data, serial_number, new_value, Today)
                      ELSE history_data
            IN  /\ data_index >= 0
                /\ data_index < Len(inventory_data)
                /\ all_tree' = (all_tree \ {row})
                                   \cup {[row EXCEPT !.assignment = new_value]}
                /\ inventory_data' = inv1
                /\ history_data' = h1
                /\ history_file' = IF h1 /= history_data /\ ok_h
                                   THEN h1 ELSE history_file
                /\ inventory_file' = IF ok_d THEN inv1 ELSE inventory_file
                /\ last' = [Op("edit_cell_assignment", "done") EXCEPT
                               !.serial = serial_number, !.employee = new_value,
                               !.other = old_value, !.date = Today,
                               !.created = inv1[data_index + 1].created_datetime]
                /\ steps' = steps + 1
                /\ UNCHANGED <<employees_list, equipment_types,
                               all_employees_listbox, equipment_tree,
                               full_history_tree, transfers_start_var,
                               transfers_end_var, transfers_tree, io_faults,
                               added_with>>

\* delete_selected_item from the context menu of all_tree (tab 0)
delete_selected_item ==
    /\ steps < MaxSteps
    /\ UNCHANGED env_vars
    /\ \E row \in all_tree, confirmed \in BOOLEAN, ok_d \in SaveOutcomes :
        LET serial_number == row.serial_number
            pos == FirstPos(inventory_data,
                            LAMBDA it : it.serial_number = serial_number)
            found == serial_number /= "" /\ pos /= 0
            inv1 == IF found THEN RemoveAt(inventory_data, pos) ELSE inventory_data
            file1 == IF ok_d THEN inv1 ELSE inventory_file
        IN  IF ~confirmed
            THEN UNCHANGED vars
            ELSE /\ inventory_file' = file1
                 /\ inventory_data' = IF ok_d THEN file1 ELSE inv1
                 /\ all_tree' = IF ok_d THEN AllRows(file1)
                                ELSE IF found THEN all_tree \ {row} ELSE all_tree
                 /\ all_employees_listbox' =
                        IF ok_d THEN Range(employees_list) ELSE all_employees_listbox
                 /\ last' = [Op("delete_selected_item",
                                 IF ok_d THEN "done" ELSE "failed") EXCEPT
                                !.serial = serial_number, !.saved = ok_d]
                 /\ steps' = steps + 1
                 /\ UNCHANGED <<history_data, history_file, employees_list,
                                equipment_types, equipment_tree, full_history_tree,
                                transfers_start_var, transfers_end_var,
                                transfers_tree, io_faults, added_with>>

\* open_add_employee_dialog.on_add and add_employee
add_employee ==
    /\ steps < MaxSteps
    /\ UNCHANGED env_vars
    /\ \E name_in \in NameInputs :
        LET employee_name == Strip(name_in)
        IN  IF employee_name = ""
            THEN Returns("add_employee", "rejected")
            ELSE IF employee_name \in Range(employees_list)
            THEN ReturnsWith([Op("add_employee", "rejected") EXCEPT
                                 !.employee = employee_name])
            ELSE /\ employees_list' = Append(employees_list, employee_name)
                 /\ last' = [Op("add_employee", "done") EXCEPT
                                !.employee = employee_name]
                 /\ steps' = steps + 1
                 /\ UNCHANGED <<inventory_data, inventory_file, history_data,
                                history_file, equipment_types,
                                all_employees_listbox, equipment_tree, all_tree,
                                full_history_tree, transfers_start_var,
                                transfers_end_var, transfers_tree, io_faults,
                                added_with>>

\* edit_selected_employee and its save_edit
rename_employee ==
    /\ steps < MaxSteps
    /\ UNCHANGED env_vars
    /\ \E old_name \in all_employees_listbox, name_in \in NameInputs,
          ok_h \in SaveOutcomes, ok_d \in SaveOutcomes :
        LET new_name == Strip(name_in)
            inv1 == RenameInInventory(inventory_data, old_name, new_name)
            h1 == RenameInHistory(history_data, old_name, new_name)
        IN  IF new_name = ""
            THEN ReturnsWith([Op("rename_employee", "rejected") EXCEPT
                                 !.employee = old_name])
            ELSE IF new_name /= old_name /\ new_name \in Range(employees_list)
            THEN ReturnsWith([Op("rename_employee", "rejected") EXCEPT
                                 !.employee = old_name, !.other = new_name])
            ELSE IF old_name \notin Range(employees_list)
            THEN ReturnsWith([Op("rename_employee", "raised") EXCEPT
                                 !.employee = old_name, !.other = new_name])
            ELSE /\ employees_list' = RenameInRoster(employees_list, old_name, new_name)
                 /\ inventory_data' = inv1
                 /\ history_data' = h1
                 /\ inventory_file' = IF ok_d THEN inv1 ELSE inventory_file
                 /\ history_file' = IF ok_h THEN h1 ELSE history_file
                 /\ last' = [Op("rename_employee", "done") EXCEPT
                                !.employee = old_name, !.other = new_name]
                 /\ steps' = steps + 1
                 /\ UNCHANGED <<equipment_types, all_employees_listbox,
                                equipment_tree, all_tree, full_history_tree,
                                transfers_start_var, transfers_end_var,
                                transfers_tree, io_faults, added_with>>

\* the body shared by delete_selected_employee and delete_employee
DeleteEmployee(op, employee_name, confirmed) ==
    IF employee_name = ""
    THEN Returns(op, "ignored")
    ELSE IF EmployeeInUse(inventory_data, employee_name)
    THEN ReturnsWith([Op(op, "rejected") EXCEPT !.employee = employee_name])
    ELSE IF ~confirmed
    THEN UNCHANGED vars
    ELSE IF employee_name \notin Range(employees_list)
    THEN ReturnsWith([Op(op, "raised") EXCEPT !.employee = employee_name])
    ELSE /\ employees_list' =
                RemoveAt(employees_list,
                         FirstPos(employees_list, LAMBDA n : n = employee_name))
         /\ last' = [Op(op, "done") EXCEPT !.employee = employee_name]
         /\ steps' = steps + 1
         /\ UNCHANGED <<inventory_data, inventory_file, history_data,
                        history_file, equipment_types, all_employees_listbox,
                        equipment_tree, all_tree, full_history_tree,
                        transfers_start_var, transfers_end_var, transfers_tree,
                        io_faults, added_with>>


\* delete_selected_employee: the name comes from the listbox selection
delete_selected_employee ==
    /\ steps < MaxSteps
    /\ UNCHANGED env_vars
    /\ \E employee_name \in all_employees_listbox, confirmed \in BOOLEAN :
        DeleteEmployee("delete_selected_employee", employee_name, confirmed)

\* delete_employee(employee_name): the name is the caller's argument
delete_employee ==
    /\ steps < MaxSteps
    /\ UNCHANGED env_vars
    /\ \E employee_name \in NameInputs, confirmed \in BOOLEAN :
        DeleteEmployee("delete_employee", employee_name, confirmed)

\* the orders in which a Python set of names can be iterated
Orders(S) == {q \in [1..Cardinality(S) -> S] : Range(q) = S}

\* new_employees of load_employees_from_inventory
AssignedNames(inv) ==
    {Strip(inv[i].assignment) : i \in DOMAIN inv} \ {""}

\* a loader that appends every assigned name without the test `emp not in`
load_employees_from_inventory_all ==
    /\ steps < MaxSteps
    /\ UNCHANGED env_vars
    /\ IF inventory_data = <<>> \/ AssignedNames(inventory_data) = {}
       THEN Returns("load_employees_from_inventory", "rejected")
       ELSE \E q \in Orders(AssignedNames(inventory_data)) :
                /\ employees_list' = employees_list \o q
                /\ last' = Op("load_employees_from_inventory", "done")
                /\ steps' = steps + 1
                /\ UNCHANGED <<inventory_data, inventory_file, history_data,
                               history_file, equipment_types,
                               all_employees_listbox, equipment_tree, all_tree,
                               full_history_tree, transfers_start_var,
                               transfers_end_var, transfers_tree, io_faults,
                               added_with>>

load_employees_from_inventory ==
    /\ steps < MaxSteps
    /\ UNCHANGED env_vars
    /\ IF inventory_data = <<>> \/ AssignedNames(inventory_data) = {}
       THEN Returns("load_employees_from_inventory", "rejected")
       ELSE \E q \in Orders(AssignedNames(inventory_data)
                               \ Range(employees_list)) :
                /\ employees_list' = employees_list \o q
                /\ last' = Op("load_employees_from_inventory", "done")
                /\ steps' = steps + 1
                /\ UNCHANGED <<inventory_data, inventory_file, history_data,
                               history_file, equipment_types,
                               all_employees_listbox, equipment_tree, all_tree,
                               full_history_tree, transfers_start_var,
                               transfers_end_var, transfers_tree, io_faults,
                               added_with>>

\* the "refresh" button of the employee tab
refresh_employee_list ==
    /\ steps < MaxSteps
    /\ UNCHANGED env_vars
    /\ all_employees_listbox' = Range(employees_list)
    /\ last' = Op("refresh_employee_list", "done")
    /\ steps' = steps + 1
    /\ UNCHANGED <<inventory_data, inventory_file, history_data, history_file,
                   employees_list, equipment_types, equipment_tree, all_tree,
                   full_history_tree, transfers_start_var, transfers_end_var,
                   transfers_tree, io_faults, added_with>>

add_equipment_type ==
    /\ steps < MaxSteps
    /\ UNCHANGED env_vars
    /\ \E type_in \in TypeInputs, ok \in SaveOutcomes :
        LET new_type == Strip(type_in)
            types1 == Append(equipment_types, new_type)
        IN  IF new_type = ""
            THEN Returns("add_equipment_type", "rejected")
            ELSE IF new_type \in Range(equipment_types)
            THEN ReturnsWith([Op("add_equipment_type", "rejected") EXCEPT
                                 !.other = new_type])
            ELSE /\ equipment_types' = types1
                 /\ equipment_tree' = IF ok THEN Range(types1) ELSE equipment_tree
                 /\ last' = [Op("add_equipment_type", "done") EXCEPT
                                !.other = new_type]
                 /\ steps' = steps + 1
                 /\ UNCHANGED <<inventory_data, inventory_file, history_data,
                                history_file, employees_list,
                                all_employees_listbox, all_tree,
                                full_history_tree, transfers_start_var,
                                transfers_end_var, transfers_tree, io_faults,
                                added_with>>

delete_equipment_type ==
    /\ steps < MaxSteps
    /\ UNCHANGED env_vars
    /\ \E selected_type \in equipment_tree, confirmed \in BOOLEAN,
          ok \in SaveOutcomes :
        LET types1 == RemoveAt(equipment_types,
                               FirstPos(equipment_types,
                                        LAMBDA t : t = selected_type))
        IN  IF TypeInUse(inventory_data, selected_type)
            THEN ReturnsWith([Op("delete_equipment_type", "rejected") EXCEPT
                                 !.other = selected_type])
            ELSE IF ~confirmed
            THEN UNCHANGED vars
            ELSE IF selected_type \notin Range(equipment_types)
            THEN ReturnsWith([Op("delete_equipment_type", "raised") EXCEPT
                                 !.other = selected_type])
            ELSE /\ equipment_types' = types1
                 /\ equipment_tree' = IF ok THEN Range(types1) ELSE equipment_tree
                 /\ last' = [Op("delete_equipment_type", "done") EXCEPT
                                !.other = selected_type]
                 /\ steps' = steps + 1
                 /\ UNCHANGED <<inventory_data, inventory_file, history_data,
                                history_file, employees_list,
                                all_employees_listbox, all_tree,
                                full_history_tree, transfers_start_var,
                                transfers_end_var, transfers_tree, io_faults,
                                added_with>>

delete_history_record ==
    /\ steps < MaxSteps
    /\ UNCHANGED env_vars
    /\ \E row \in full_history_tree, confirmed \in BOOLEAN, ok_h \in SaveOutcomes :
        LET h1 == RemoveHistoryRecord(history_data, row.serial, row.assignment,
                                      row.date)
        IN  IF ~confirmed
            THEN UNCHANGED vars
            ELSE IF row.serial \notin HistoryKeys(history_data)
            THEN Returns("delete_history_record", "ignored")
            ELSE /\ history_data' = h1
                 /\ history_file' = IF ok_h THEN h1 ELSE history_file
                 /\ full_history_tree' = HistoryRows(inventory_data, h1)
                 /\ last' = [Op("delete_history_record", "done") EXCEPT
                                !.serial = row.serial, !.employee = row.assignment,
                                !.date = row.date]
                 /\ steps' = steps + 1
                 /\ UNCHANGED <<inventory_data, inventory_file, employees_list,
                                equipment_types, all_employees_listbox,
                                equipment_tree, all_tree, transfers_start_var,
                                transfers_end_var, transfers_tree, io_faults,
                                added_with>>

\* the user types a period and presses "generate report"
generate_transfers_report ==
    /\ steps < MaxSteps
    /\ UNCHANGED env_vars
    /\ \E start_str \in StartInputs, end_str \in EndInputs :
        LET again == /\ last.op = "generate_transfers_report"
                     /\ last.outcome /= "rejected"
                     /\ start_str = transfers_start_var
                     /\ end_str = transfers_end_var
        IN  /\ transfers_start_var' = start_str
            /\ transfers_end_var' = end_str
            /\ IF BadPeriod(start_str, end_str)
               THEN /\ transfers_tree' = transfers_tree
                    /\ last' = Op("generate_transfers_report", "rejected")
               ELSE /\ transfers_tree' =
                           ReportTree(transfers_tree, inventory_data,
                                      history_data, start_str, end_str)
                    /\ last' = [Op("generate_transfers_report",
                                   IF SortRaises(history_data)
                                   THEN "raised" ELSE "done")
                                EXCEPT !.repeat = again]
            /\ steps' = steps + 1
            /\ UNCHANGED <<inventory_data, inventory_file, history_data,
                           history_file, employees_list, equipment_types,
                           all_employees_listbox, equipment_tree, all_tree,
                           full_history_tree, io_faults, added_with>>

Next ==
    \/ add_equipment
    \/ confirm_transfer
    \/ edit_cell_entry
    \/ edit_cell_assignment
    \/ delete_selected_item
    \/ add_employee
    \/ rename_employee
    \/ delete_selected_employee
    \/ delete_employee
    \/ load_employees_from_inventory
    \/ refresh_employee_list
    \/ add_equipment_type
    \/ delete_equipment_type
    \/ delete_history_record
    \/ generate_transfers_report

Spec == Init /\ [][Next]_vars

\* the same application on a disk whose file writes can fail
InitIO == InitData /\ io_faults = TRUE /\ InitEnv

SpecIO == InitIO /\ [][Next]_vars


----------------------------------------------------------------------------
(* Backups *)

\* the variables of the main window other than the ghosts last and steps
window_vars ==
    <<inventory_data, inventory_file, history_data, history_file,
      employees_list, equipment_types, all_employees_listbox, equipment_tree,
      all_tree, full_history_tree, transfers_start_var, transfers_end_var,
      transfers_tree, io_faults, added_with>>

\* files_to_backup that os.path.exists finds: the loaders create
\* inventory.json, employees.json and equipment_types.json at startup, and
\* history.json exists once save_history has written it
ExistingFiles ==
    SelectSeq(<<"inventory", "history", "employees", "equipment_types">>,
              LAMBDA f : f /= "history" \/ history_file /= <<>>)

\* <name>_backup_<timestamp>.json
BackupName(src_file, timestamp) == [file |-> src_file, timestamp |-> timestamp]

\* create_backup: copies each existing data file under the current second;
\* a copy that raises ends the loop in the except branch
create_backup ==
    /\ steps < MaxSteps
    /\ \E timestamp \in {clock, clock + 1} :
        \E copied \in (IF io_faults THEN 0..Len(ExistingFiles)
                       ELSE {Len(ExistingFiles)}) :
            /\ clock' = timestamp
            /\ backups' = backups \cup {BackupName(ExistingFiles[k], timestamp) :
                                            k \in 1..copied}
            /\ last' = [Op("create_backup",
                            IF copied = Len(ExistingFiles) THEN "done" ELSE "failed")
                        EXCEPT !.created = timestamp]
            /\ steps' = steps + 1
            /\ UNCHANGED <<window_vars, search_tree, employee_tree,
                           auto_save_pending, auto_save_runs, other_instance,
                           pc, temp_file, torn, killed>>

\* a session in which the user edits the data and makes backups
NextBackup ==
    \/ add_equipment
    \/ confirm_transfer
    \/ add_employee
    \/ create_backup

SpecBackup == Init /\ [][NextBackup]_vars

----------------------------------------------------------------------------
(* Auto-save *)

\* a callback that re-arms the timer only after a successful save
auto_save_unless_failed ==
    /\ auto_save_pending >= 1
    /\ ~killed
    /\ pc = <<>>
    /\ \E ok \in SaveOutcomes :
        /\ inventory_file' = IF ok THEN inventory_data ELSE inventory_file
        /\ auto_save_pending' = (auto_save_pending - 1) + (IF ok THEN 1 ELSE 0)
        /\ auto_save_runs' = 1 - auto_save_runs
        /\ last' = Op("auto_save", IF ok THEN "done" ELSE "failed")
        /\ UNCHANGED <<inventory_data, history_data, history_file,
                       employees_list, equipment_types, all_employees_listbox,
                       equipment_tree, all_tree, full_history_tree,
                       transfers_start_var, transfers_end_var, transfers_tree,
                       io_faults, added_with, steps, search_tree, employee_tree,
                       backups, clock, other_instance, pc, temp_file, torn,
                       killed>>

\* a callback that reloads the table from the file instead of writing it
auto_save_reloading ==
    /\ auto_save_pending >= 1
    /\ ~killed
    /\ pc = <<>>
    /\ inventory_data' = inventory_file
    /\ auto_save_pending' = (auto_save_pending - 1) + 1
    /\ auto_save_runs' = 1 - auto_save_runs
    /\ last' = Op("auto_save", "done")
    /\ UNCHANGED <<inventory_file, history_data, history_file,
                   employees_list, equipment_types, all_employees_listbox,
                   equipment_tree, all_tree, full_history_tree,
                   transfers_start_var, transfers_end_var, transfers_tree,
                   io_faults, added_with, steps, search_tree, employee_tree,
                   backups, clock, other_instance, pc, temp_file, torn,
                   killed>>

\* the callback auto_save of schedule_auto_save: the event loop takes one
\* pending callback, it runs save_data and then root.after arms the next one
auto_save ==
    /\ auto_save_pending >= 1
    /\ ~killed
    /\ pc = <<>>
    /\ \E ok \in SaveOutcomes :
        /\ inventory_file' = IF ok THEN inventory_data ELSE inventory_file
        /\ auto_save_pending' = (auto_save_pending - 1) + 1
        /\ auto_save_runs' = 1 - auto_save_runs
        /\ last' = Op("auto_save", IF ok THEN "done" ELSE "failed")
        /\ UNCHANGED <<inventory_data, history_data, history_file,
                       employees_list, equipment_types, all_employees_listbox,
                       equipment_tree, all_tree, full_history_tree,
                       transfers_start_var, transfers_end_var, transfers_tree,
                       io_faults, added_with, steps, search_tree, employee_tree,
                       backups, clock, other_instance, pc, temp_file, torn,
                       killed>>

\* a session of cell edits and deletions on a disk that can fail, with the
\* timer running
NextTimer ==
    \/ edit_cell_entry
    \/ delete_selected_item
    \/ auto_save

\* the Tk event loop runs a due callback
SpecTimer == InitIO /\ [][NextTimer]_vars /\ WF_vars(auto_save)

----------------------------------------------------------------------------
(* Two instances on one data directory *)

\* what one running instance holds in memory and shows in its window
InstanceState ==
    [inventory_data |-> inventory_data, history_data |-> history_data,
     employees_list |-> employees_list, equipment_types |-> equipment_types,
     all_employees_listbox |-> all_employees_listbox,
     equipment_tree |-> equipment_tree, all_tree |-> all_tree,
     full_history_tree |-> full_history_tree,
     transfers_start_var |-> transfers_start_var,
     transfers_end_var |-> transfers_end_var,
     transfers_tree |-> transfers_tree]

\* the user turns to the window of the other instance: the variables of the
\* model describe the instance whose event loop runs the next handler, and
\* the files are the same for both
switch_instance ==
    /\ other_instance /= <<>>
    /\ other_instance' = InstanceState
    /\ inventory_data' = other_instance.inventory_data
    /\ history_data' = other_instance.history_data
    /\ employees_list' = other_instance.employees_list
    /\ equipment_types' = other_instance.equipment_types
    /\ all_employees_listbox' = other_instance.all_employees_listbox
    /\ equipment_tree' = other_instance.equipment_tree
    /\ all_tree' = other_instance.all_tree
    /\ full_history_tree' = other_instance.full_history_tree
    /\ transfers_start_var' = other_instance.transfers_start_var
    /\ transfers_end_var' = other_instance.transfers_end_var
    /\ transfers_tree' = other_instance.transfers_tree
    /\ last' = Op("switch_instance", "done")
    /\ UNCHANGED <<inventory_file, history_file, io_faults, added_with, steps,
                   search_tree, employee_tree, backups, clock,
                   auto_save_pending, auto_save_runs, pc, temp_file, torn,
                   killed>>

\* both instances have started on the same data directory
InitTwo ==
    /\ InitData
    /\ io_faults = FALSE
    /\ search_tree = {}
    /\ employee_tree = {}
    /\ backups = {}
    /\ clock = 0
    /\ auto_save_pending = 1
    /\ auto_save_runs = 0
    /\ other_instance = InstanceState
    /\ pc = <<>>
    /\ temp_file = "absent"
    /\ torn = {}
    /\ killed = FALSE

\* the handlers and the timer of whichever instance runs next
NextTwo ==
    \/ confirm_transfer
    \/ edit_cell_entry
    \/ delete_selected_item
    \/ auto_save
    \/ switch_instance

SpecTwo == InitTwo /\ [][NextTwo]_vars

----------------------------------------------------------------------------
(* File writes step by step, and a process that can be killed *)

\* save_history: open the temporary file, dump into it, os.replace
SaveHistorySteps == <<"open_tmp", "dump_tmp", "replace">>

\* save_data: open inventory.json for writing, dump into it
SaveDataSteps == <<"open_inventory", "dump_inventory">>

\* the writes add_to_history does: save_history when it appended the entry
AddToHistorySteps(h, serial_number, assignment, date) ==
    IF HistoryAppended(h, serial_number, assignment, date)
    THEN SaveHistorySteps ELSE <<>>

\* the first part of confirm_transfer: the dialog's checks and the changes in
\* memory; the file writes it then makes are left in pc
confirm_transfer_begin ==
    /\ steps < MaxSteps
    /\ pc = <<>>
    /\ ~killed
    /\ \E row \in all_tree, new_employee \in TransferChoices,
          transfer_date \in DateInputs :
        LET pos == FirstPos(inventory_data,
                            LAMBDA it : it.serial_number = row.serial_number)
            refused == [Op("confirm_transfer", "rejected") EXCEPT
                           !.serial = row.serial_number,
                           !.employee = new_employee, !.date = transfer_date]
        IN  IF pos = 0
            THEN Returns("transfer_selected_item", "rejected") /\ UNCHANGED env_vars
            ELSE IF new_employee = "" \/ transfer_date = NoDate
                    \/ ~Parses(transfer_date)
            THEN ReturnsWith(refused) /\ UNCHANGED env_vars
            ELSE LET equipment_item == inventory_data[pos]
                 IN  /\ inventory_data' = [inventory_data EXCEPT
                                              ![pos].assignment = new_employee,
                                              ![pos].date = transfer_date]
                     /\ history_data' =
                            add_to_history(history_data, equipment_item.serial_number,
                                           new_employee, transfer_date)
                     /\ pc' = AddToHistorySteps(history_data,
                                                equipment_item.serial_number,
                                                new_employee, transfer_date)
                              \o SaveDataSteps \o SaveHistorySteps
                              \o <<"show_all_data">>
                     /\ last' = [Op("confirm_transfer", "done") EXCEPT
                                    !.serial = equipment_item.serial_number,
                                    !.employee = new_employee,
                                    !.other = equipment_item.assignment,
                                    !.date = transfer_date,
                                    !.created = equipment_item.created_datetime]
                     /\ steps' = steps + 1
                     /\ UNCHANGED <<inventory_file, history_file, employees_list,
                                    equipment_types, all_employees_listbox,
                                    equipment_tree, all_tree, full_history_tree,
                                    transfers_start_var, transfers_end_var,
                                    transfers_tree, io_faults, added_with,
                                    search_tree, employee_tree, backups, clock,
                                    auto_save_pending, auto_save_runs,
                                    other_instance, temp_file, torn, killed>>

\* the first part of add_equipment, up to the append and add_to_history's
\* change in memory
add_equipment_begin ==
    /\ steps < MaxSteps
    /\ pc = <<>>
    /\ ~killed
    /\ Len(inventory_data) < MaxInv
    /\ \E type_in \in TypeInputs, serial_in \in SerialInputs,
          assignment_in \in NameInputs, date \in DateInputs :
        LET equipment_type == Strip(type_in)
            serial_number == Strip(serial_in)
            assignment == Strip(assignment_in)
            item == Item(equipment_type, serial_number, assignment, date, steps + 1)
            refused == [Op("add_equipment", "rejected") EXCEPT
                           !.serial = serial_number, !.other = equipment_type]
        IN  IF equipment_type = "" \/ serial_number = ""
               \/ equipment_type \notin Range(equipment_types)
            THEN ReturnsWith(refused) /\ UNCHANGED env_vars
            ELSE /\ inventory_data' = Append(inventory_data, item)
                 /\ history_data' =
                        add_to_history(history_data, serial_number, assignment, date)
                 /\ pc' = AddToHistorySteps(history_data, serial_number,
                                            assignment, date)
                          \o SaveDataSteps \o <<"show_all_data">>
                 /\ added_with' =
                        IF assignment = "" THEN added_with
                        ELSE added_with \cup {[created |-> steps + 1,
                                               assignment |-> assignment,
                                               date |-> date]}
                 /\ last' = [Op("add_equipment", "done") EXCEPT
                                !.serial = serial_number, !.employee = assignment,
                                !.other = equipment_type, !.date = date,
                                !.created = steps + 1]
                 /\ steps' = steps + 1
                 /\ UNCHANGED <<inventory_file, history_file, employees_list,
                                equipment_types, all_employees_listbox,
                                equipment_tree, all_tree, full_history_tree,
                                transfers_start_var, transfers_end_var,
                                transfers_tree, io_faults,
                                search_tree, employee_tree, backups, clock,
                                auto_save_pending, auto_save_runs,
                                other_instance, temp_file, torn, killed>>

\* the first part of save_edit of the Combobox editor on a row of all_tree
edit_cell_assignment_begin ==
    /\ steps < MaxSteps
    /\ pc = <<>>
    /\ ~killed
    /\ \E row \in all_tree :
        \E new_value \in {""} \cup Range(employees_list) \cup {row.assignment} :
            LET data_index == row.tag
                old_value == row.assignment
                inv1 == [inventory_data EXCEPT ![data_index + 1].assignment = new_value]
                serial_number == inv1[data_index + 1].serial_number
                logged == serial_number /= "" /\ old_value /= new_value
            IN  /\ data_index >= 0
                /\ data_index < Len(inventory_data)
                /\ all_tree' = (all_tree \ {row})
                                   \cup {[row EXCEPT !.assignment = new_value]}
                /\ inventory_data' = inv1
                /\ history_data' =
                       IF logged
                       THEN add_to_history(history_data, serial_number, new_value, Today)
                       ELSE history_data
                /\ pc' = (IF logged
                          THEN AddToHistorySteps(history_data, serial_number,
                                                 new_value, Today)
                          ELSE <<>>) \o SaveDataSteps
                /\ last' = [Op("edit_cell_assignment", "done") EXCEPT
                               !.serial = serial_number, !.employee = new_value,
                               !.other = old_value, !.date = Today,
                               !.created = inv1[data_index + 1].created_datetime]
                /\ steps' = steps + 1
                /\ UNCHANGED <<inventory_file, history_file, employees_list,
                               equipment_types, all_employees_listbox,
                               equipment_tree, full_history_tree,
                               transfers_start_var, transfers_end_var,
                               transfers_tree, io_faults, added_with,
                               search_tree, employee_tree, backups, clock,
                               auto_save_pending, auto_save_runs,
                               other_instance, temp_file, torn, killed>>

\* a save_history that opens history.json itself for writing
write_step_in_place ==
    /\ pc /= <<>>
    /\ ~killed
    /\ pc' = Tail(pc)
    /\ temp_file' = temp_file
    /\ torn' = CASE Head(pc) = "open_tmp" -> torn \cup {"history"}
                 [] Head(pc) = "replace" -> torn \ {"history"}
                 [] Head(pc) = "open_inventory" -> torn \cup {"inventory"}
                 [] Head(pc) = "dump_inventory" -> torn \ {"inventory"}
                 [] OTHER -> torn
    /\ history_file' = IF Head(pc) = "replace" THEN history_data ELSE history_file
    /\ inventory_file' =
           IF Head(pc) = "dump_inventory" THEN inventory_data ELSE inventory_file
    /\ inventory_data' =
           IF Head(pc) = "show_all_data" THEN inventory_file ELSE inventory_data
    /\ all_tree' =
           IF Head(pc) = "show_all_data" THEN AllRows(inventory_file) ELSE all_tree
    /\ all_employees_listbox' =
           IF Head(pc) = "show_all_data" THEN Range(employees_list)
           ELSE all_employees_listbox
    /\ UNCHANGED <<history_data, employees_list, equipment_types, equipment_tree,
                   full_history_tree, transfers_start_var, transfers_end_var,
                   transfers_tree, io_faults, added_with, last, steps,
                   search_tree, employee_tree, backups, clock,
                   auto_save_pending, auto_save_runs, other_instance, killed>>

\* the next file operation of the running handler:
\*   open_tmp        open(temp_file, 'w') creates or empties history.json.tmp
\*   dump_tmp        json.dump and the end of the with block complete it
\*   replace         os.replace puts it in the place of history.json at once
\*   open_inventory  open(inventory_file, 'w') empties inventory.json
\*   dump_inventory  json.dump and the end of the with block complete it
\*   show_all_data   the refresh after the writes: show_all_data reloads the
\*                   table from inventory.json, refresh_employee_list
write_step ==
    /\ pc /= <<>>
    /\ ~killed
    /\ pc' = Tail(pc)
    /\ temp_file' = CASE Head(pc) = "open_tmp" -> "partial"
                      [] Head(pc) = "dump_tmp" -> "complete"
                      [] Head(pc) = "replace" -> "absent"
                      [] OTHER -> temp_file
    /\ torn' = CASE Head(pc) = "open_inventory" -> torn \cup {"inventory"}
                 [] Head(pc) = "dump_inventory" -> torn \ {"inventory"}
                 [] OTHER -> torn
    /\ history_file' = IF Head(pc) = "replace" THEN history_data ELSE history_file
    /\ inventory_file' =
           IF Head(pc) = "dump_inventory" THEN inventory_data ELSE inventory_file
    /\ inventory_data' =
           IF Head(pc) = "show_all_data" THEN inventory_file ELSE inventory_data
    /\ all_tree' =
           IF Head(pc) = "show_all_data" THEN AllRows(inventory_file) ELSE all_tree
    /\ all_employees_listbox' =
           IF Head(pc) = "show_all_data" THEN Range(employees_list)
           ELSE all_employees_listbox
    /\ UNCHANGED <<history_data, employees_list, equipment_types, equipment_tree,
                   full_history_tree, transfers_start_var, transfers_end_var,
                   transfers_tree, io_faults, added_with, last, steps,
                   search_tree, employee_tree, backups, clock,
                   auto_save_pending, auto_save_runs, other_instance, killed>>

\* the process is killed, between two handlers or between two file operations
kill ==
    /\ ~killed
    /\ killed' = TRUE
    /\ UNCHANGED <<window_vars, last, steps, search_tree, employee_tree, backups,
                   clock, auto_save_pending, auto_save_runs, other_instance, pc,
                   temp_file, torn>>

NextCrash ==
    \/ add_equipment_begin
    \/ confirm_transfer_begin
    \/ edit_cell_assignment_begin
    \/ write_step
    \/ kill

SpecCrash == Init /\ [][NextCrash]_vars

----------------------------------------------------------------------------
(* The search tab, the employees tab and the context menus *)

\* the tabs in the order create_widgets adds them to the notebook, from 0
TabOrder ==
    <<"show_all", "add_equipment", "search", "employees", "equipment",
      "settings", "history", "transfers", "about">>

\* self.notebook.index(self.notebook.select()) while that tab is shown
TabIndex(tab) == FirstPos(TabOrder, LAMBDA t : t = tab) - 1

\* the tab on which each table with a context menu lies
TabOfTree(tree) ==
    CASE tree = "all_tree" -> "show_all"
      [] tree = "search_tree" -> "search"
      [] tree = "employee_tree" -> "employees"

\* the table transfer_selected_item takes for the current tab
TransferTree(current_tab) ==
    CASE current_tab = 0 -> "all_tree"
      [] current_tab = 2 -> "search_tree"
      [] current_tab = 3 -> "employee_tree"
      [] OTHER -> "none"

\* the table delete_selected_item takes for the current tab
DeleteTree(current_tab) ==
    CASE current_tab = 1 -> "search_tree"
      [] current_tab = 2 -> "employee_tree"
      [] current_tab = 0 -> "all_tree"
      [] OTHER -> "none"

\* the texts typed into the search field, lower case
SearchTexts == {"", "s", "s1"}

\* search_text in str(value).lower(), for the values a record can hold
ContainsLower(value, search_text) ==
    CASE search_text = "" -> TRUE
      [] search_text = "s" -> value \in Serials
      [] search_text = "s1" -> value = "S1"

\* any(search_text in str(value).lower() for value in item.values() if value):
\* created_datetime is never empty; of the other values only a serial number
\* contains an "s"
matches_search(item, search_text) ==
    \/ search_text = ""
    \/ item.serial_number /= "" /\ ContainsLower(item.serial_number, search_text)

matches_employee(item, selected_employee) ==
    selected_employee = "" \/ item.assignment = selected_employee

\* idx: the position, from 0, of the first record with the same serial number
SearchTag(inv, item) ==
    FirstPos(inv, LAMBDA x : x.serial_number = item.serial_number) - 1

\* the rows perform_search inserts into search_tree
SearchRows(inv, search_text, selected_employee) ==
    IF search_text = "" /\ selected_employee = "" THEN {}
    ELSE {Row(inv[i], SearchTag(inv, inv[i])) :
            i \in {j \in DOMAIN inv : /\ matches_search(inv[j], search_text)
                                      /\ matches_employee(inv[j], selected_employee)}}

perform_search ==
    /\ \E search_text \in SearchTexts, selected_employee \in Names \cup {""} :
        search_tree' = SearchRows(inventory_data, search_text, selected_employee)
    /\ last' = Op("perform_search", "done")
    /\ UNCHANGED <<window_vars, steps, employee_tree, backups, clock,
                   auto_save_pending, auto_save_runs, other_instance, pc,
                   temp_file, torn, killed>>

\* the rows show_employee_equipment inserts into employee_tree: no tags
EmployeeRows(inv, employee) ==
    IF employee = "" THEN {}
    ELSE {[equipment_type |-> inv[i].equipment_type,
           serial_number |-> inv[i].serial_number, date |-> inv[i].date] :
            i \in {j \in DOMAIN inv : inv[j].assignment = employee}}

show_employee_equipment ==
    /\ \E employee \in Names \cup {""} :
        employee_tree' = EmployeeRows(inventory_data, employee)
    /\ last' = Op("show_employee_equipment", "done")
    /\ UNCHANGED <<window_vars, steps, search_tree, backups, clock,
                   auto_save_pending, auto_save_runs, other_instance, pc,
                   temp_file, torn, killed>>

\* on_tree_double_click on a row of search_tree, edit_cell, save_edit of the
\* Entry editor; last.serial is the serial number the row shows
edit_cell_entry_search ==
    /\ steps < MaxSteps
    /\ \E row \in search_tree, field_name \in EntryFields, ok_d \in SaveOutcomes :
        \E new_value \in EntryInputs(field_name) :
            LET data_index == row.tag
                inv1 == [inventory_data EXCEPT ![data_index + 1][field_name] = new_value]
            IN  /\ data_index >= 0
                /\ data_index < Len(inventory_data)
                /\ search_tree' = (search_tree \ {row})
                                      \cup {[row EXCEPT ![field_name] = new_value]}
                /\ inventory_data' = inv1
                /\ inventory_file' = IF ok_d THEN inv1 ELSE inventory_file
                /\ last' = [Op("edit_cell_entry_search", "done") EXCEPT
                               !.serial = row.serial_number,
                               !.other = field_name,
                               !.created = inv1[data_index + 1].created_datetime]
                /\ steps' = steps + 1
                /\ UNCHANGED <<history_data, history_file, employees_list,
                               equipment_types, all_employees_listbox,
                               equipment_tree, all_tree, full_history_tree,
                               transfers_start_var, transfers_end_var,
                               transfers_tree, io_faults, added_with,
                               employee_tree, backups, clock, auto_save_pending,
                               auto_save_runs, other_instance, pc, temp_file,
                               torn, killed>>

\* on_tree_double_click on a row of search_tree, edit_cell, save_edit of the
\* Combobox editor; last.serial is the serial number the row shows
edit_cell_assignment_search ==
    /\ steps < MaxSteps
    /\ \E row \in search_tree, ok_h \in SaveOutcomes, ok_d \in SaveOutcomes :
        \E new_value \in {""} \cup Range(employees_list) \cup {row.assignment} :
            LET data_index == row.tag
                old_value == row.assignment
                inv1 == [inventory_data EXCEPT ![data_index + 1].assignment = new_value]
                serial_number == inv1[data_index + 1].serial_number
                logged == serial_number /= "" /\ old_value /= new_value
                h1 == IF logged
                      THEN add_to_history(history_data, serial_number, new_value, Today)
                      ELSE history_data
            IN  /\ data_index >= 0
                /\ data_index < Len(inventory_data)
                /\ search_tree' = (search_tree \ {row})
                                      \cup {[row EXCEPT !.assignment = new_value]}
                /\ inventory_data' = inv1
                /\ history_data' = h1
                /\ history_file' = IF h1 /= history_data /\ ok_h
                                   THEN h1 ELSE history_file
                /\ inventory_file' = IF ok_d THEN inv1 ELSE inventory_file
                /\ last' = [Op("edit_cell_assignment_search", "done") EXCEPT
                               !.serial = row.serial_number, !.employee = new_value,
                               !.other = old_value, !.date = Today,
                               !.created = inv1[data_index + 1].created_datetime]
                /\ steps' = steps + 1
                /\ UNCHANGED <<employees_list, equipment_types,
                               all_employees_listbox, equipment_tree, all_tree,
                               full_history_tree, transfers_start_var,
                               transfers_end_var, transfers_tree, io_faults,
                               added_with, employee_tree, backups, clock,
                               auto_save_pending, auto_save_runs, other_instance,
                               pc, temp_file, torn, killed>>

\* the rows of a table as delete_selected_item reads them: values[2]
TreeSerials(tree) ==
    CASE tree = "all_tree" -> {row.serial_number : row \in all_tree}
      [] tree = "search_tree" -> {row.serial_number : row \in search_tree}
      [] tree = "employee_tree" -> {row.serial_number : row \in employee_tree}
      [] OTHER -> {}

\* show_context_menu on a row of the search table or of the employee table
\* (it selects that row and posts the menu of that table), then "delete" in
\* the menu: delete_selected_item with the tab of that table current.
\* last.other is the table clicked, last.serial the serial number of the row
\* clicked; the command reads the selection of the table DeleteTree gives,
\* which is a row the user selected there earlier, or nothing
delete_selected_item_menu ==
    /\ steps < MaxSteps
    /\ \E clicked \in {"search_tree", "employee_tree"} :
        \E clicked_serial \in TreeSerials(clicked) :
            LET current_tab == TabIndex(TabOfTree(clicked))
                tree == DeleteTree(current_tab)
                result == [Op("delete_selected_item", "done") EXCEPT
                              !.other = clicked, !.serial = clicked_serial]
            IN  \E selected \in (IF tree = clicked THEN {clicked_serial}
                                 ELSE TreeSerials(tree) \cup {"nothing selected"}),
                   confirmed \in BOOLEAN, ok_d \in SaveOutcomes :
                    LET pos == FirstPos(inventory_data,
                                        LAMBDA it : it.serial_number = selected)
                        found == selected /= "" /\ pos /= 0
                        inv1 == IF found THEN RemoveAt(inventory_data, pos)
                                ELSE inventory_data
                        file1 == IF ok_d THEN inv1 ELSE inventory_file
                    IN  IF tree = "none"
                        THEN ReturnsWith([result EXCEPT !.outcome = "ignored"])
                             /\ UNCHANGED env_vars
                        ELSE IF selected = "nothing selected"
                        THEN ReturnsWith([result EXCEPT !.outcome = "rejected"])
                             /\ UNCHANGED env_vars
                        ELSE IF ~confirmed
                        THEN ReturnsWith([result EXCEPT !.outcome = "cancelled"])
                             /\ UNCHANGED env_vars
                        ELSE /\ inventory_file' = file1
                             /\ inventory_data' = IF ok_d THEN file1 ELSE inv1
                             /\ all_tree' = IF ok_d THEN AllRows(file1) ELSE all_tree
                             /\ all_employees_listbox' =
                                    IF ok_d THEN Range(employees_list)
                                    ELSE all_employees_listbox
                             /\ search_tree' =
                                    IF tree = "search_tree" /\ found
                                    THEN {r \in search_tree : r.serial_number /= selected}
                                    ELSE search_tree
                             /\ employee_tree' =
                                    IF tree = "employee_tree" /\ found
                                    THEN {r \in employee_tree : r.serial_number /= selected}
                                    ELSE employee_tree
                             /\ last' = [result EXCEPT
                                            !.outcome = IF ok_d THEN "done" ELSE "failed",
                                            !.saved = ok_d]
                             /\ steps' = steps + 1
                             /\ UNCHANGED <<history_data, history_file,
                                            employees_list, equipment_types,
                                            equipment_tree, full_history_tree,
                                            transfers_start_var, transfers_end_var,
                                            transfers_tree, io_faults, added_with,
                                            backups, clock, auto_save_pending,
                                            auto_save_runs, other_instance, pc,
                                            temp_file, torn, killed>>

\* a data directory left by an earlier session in which S1 was added for A
\* on D1 and transferred to B on D3, and S2 was added for A on D1
TabsData ==
    [inventory |-> <<Item("T1", "S1", "B", D3, 0), Item("T1", "S2", "A", D1, -2)>>,
     history |-> <<[serial |-> "S1",
                    records |-> <<Entry("A", D1), Entry("B", D3)>>],
                   [serial |-> "S2", records |-> <<Entry("A", D1)>>]>>,
     employees |-> <<"A", "B">>,
     added |-> {[created |-> 0, assignment |-> "A", date |-> D1],
                [created |-> -2, assignment |-> "A", date |-> D1]}]

InitTabs == InitFrom(TabsData) /\ io_faults = FALSE /\ InitEnv

\* a session on the first four tabs
NextTabs ==
    \/ delete_selected_item
    \/ perform_search
    \/ show_employee_equipment
    \/ edit_cell_entry_search
    \/ edit_cell_assignment_search
    \/ delete_selected_item_menu

SpecTabs == InitTabs /\ [][NextTabs]_vars

----------------------------------------------------------------------------
(* Properties *)

HistoryOf(serial) == Range(get_history_for_equipment(history_data, serial))

HistoryEntries == UNION {Range(history_data[i].records) : i \in DOMAIN history_data}

\* the inventory records carrying a creation stamp
RecordsCreated(created) ==
    {inventory_data[i] : i \in {j \in DOMAIN inventory_data :
                                   inventory_data[j].created_datetime = created}}

\* C1: in every reachable state the history list of every serial number holds
\* no two entries with the same (assignment, date) pair.
C1_NoDuplicateHistoryEntries ==
    \A i \in DOMAIN history_data : NoDuplicates(history_data[i].records)

RenameAccepted ==
    /\ last.op = "rename_employee"
    /\ last.outcome = "done"
    /\ last.other /= last.employee

\* C2: after an accepted rename old -> new (new non-empty, different from old,
\* not in the roster) no inventory record and no history entry is assigned to
\* old, and the roster does not contain old.
C2_RenameLeavesNoOldName ==
    RenameAccepted =>
        /\ last.employee \notin Range(employees_list)
        /\ \A i \in DOMAIN inventory_data :
               inventory_data[i].assignment /= last.employee
        /\ \A e \in HistoryEntries : e.assignment /= last.employee

\* an accepted rename that had a record and a history entry to rename
C2_Witness ==
    /\ RenameAccepted
    /\ last.other \in Range(employees_list)
    /\ \E i \in DOMAIN inventory_data : inventory_data[i].assignment = last.other
    /\ \E e \in HistoryEntries : e.assignment = last.other

TransferDone == last.op = "confirm_transfer" /\ last.outcome = "done"

\* C3 as stated: after a confirmed transfer of the record with serial s to e
\* on a valid date d the record holds (e, d), the history of s contains (e, d)
\* and, if the record was added with a non-empty assignment a0 on d0, the
\* history of s still contains (a0, d0).
C3_TransferKeepsAddEntry ==
    TransferDone =>
        /\ \A r \in RecordsCreated(last.created) :
               r.assignment = last.employee /\ r.date = last.date
        /\ Entry(last.employee, last.date) \in HistoryOf(last.serial)
        /\ \A g \in added_with :
               g.created = last.created =>
                   Entry(g.assignment, g.date) \in HistoryOf(last.serial)

\* C3 amended: after a confirmed transfer the record holds (e, d); when the
\* serial s is not empty the history of s contains (e, d) and every entry the
\* history of s held just before the transfer.
C3_TransferAppends ==
    [][(TransferDone' /\ steps' = steps + 1) =>
          /\ \A i \in DOMAIN inventory_data' :
                 inventory_data'[i].created_datetime = last'.created =>
                     /\ inventory_data'[i].assignment = last'.employee
                     /\ inventory_data'[i].date = last'.date
          /\ last'.serial /= "" =>
                 /\ Entry(last'.employee, last'.date)
                        \in Range(get_history_for_equipment(history_data', last'.serial))
                 /\ Range(get_history_for_equipment(history_data, last'.serial))
                        \subseteq
                    Range(get_history_for_equipment(history_data', last'.serial))
      ]_vars

\* a transfer of a record whose entry of the add is in the history with the new one
C3_Witness ==
    /\ TransferDone
    /\ last.serial /= ""
    /\ RecordsCreated(last.created) /= {}
    /\ \E g \in added_with :
           /\ g.created = last.created
           /\ Entry(g.assignment, g.date) /= Entry(last.employee, last.date)
           /\ {Entry(g.assignment, g.date), Entry(last.employee, last.date)}
                  \subseteq HistoryOf(last.serial)


ReportRan ==
    /\ last.op = "generate_transfers_report"
    /\ last.outcome \in {"done", "raised"}

ReportDone == last.op = "generate_transfers_report" /\ last.outcome = "done"

\* what the handler would show for a period on the present data
ReportFor(start, end) ==
    ReportTree(<<>>, inventory_data, history_data, start, end)

\* positions of the entries of a history list that can stand on a timeline
Dated(records) ==
    {j \in DOMAIN records : records[j].assignment /= "" /\ Parses(records[j].date)}

\* j comes before k in the date-ascending order (earlier entry first on a tie)
Earlier(records, j, k) ==
    \/ DateOrd(records[j].date) < DateOrd(records[k].date)
    \/ DateOrd(records[j].date) = DateOrd(records[k].date) /\ j < k

Consecutive(records, j, k) ==
    /\ Earlier(records, j, k)
    /\ ~\E m \in Dated(records) : Earlier(records, j, m) /\ Earlier(records, m, k)

\* the transfers C4 describes for one period
DescribedTransfers(start, end) ==
    UNION {
        {Transfer(inventory_data, history_data[i].serial,
                  history_data[i].records[p[1]], history_data[i].records[p[2]]) :
            p \in {q \in Dated(history_data[i].records)
                             \X Dated(history_data[i].records) :
                      /\ Consecutive(history_data[i].records, q[1], q[2])
                      /\ history_data[i].records[q[1]].assignment
                             /= history_data[i].records[q[2]].assignment
                      /\ InWindow(history_data[i].records[q[2]].date, start, end)}} :
        i \in DOMAIN history_data}

\* the periods the report accepts
Periods == {w \in ValidDates \X ValidDates : DateOrd(w[1]) <= DateOrd(w[2])}

\* C4: the report shows exactly, for each serial and each pair of entries
\* consecutive in the date-ascending order of its timeline with different
\* employees, one transfer (serial, earlier employee, later employee, later
\* date) iff that date lies in [start, end]; in particular a confirmed
\* transfer from a0 to e on a date d inside the period is reported.
C4_ReportIsExactlyTheConsecutivePairs ==
    /\ ReportRan =>
           Range(transfers_tree)
               = DescribedTransfers(transfers_start_var, transfers_end_var)
    /\ (TransferDone /\ last.serial /= "" /\ last.other /= ""
            /\ last.other /= last.employee) =>
           \A w \in Periods :
               InWindow(last.date, w[1], w[2]) =>
                   \E t \in Range(ReportFor(w[1], w[2])) :
                       /\ t.serial = last.serial
                       /\ t.from = last.other
                       /\ t.to = last.employee
                       /\ t.date = last.date

\* the first part of C4 on the runs in which the sort does not raise
C4_ExactWhenSortSucceeds ==
    ReportDone =>
        Range(transfers_tree)
            = DescribedTransfers(transfers_start_var, transfers_end_var)

\* the first inventory record with a serial, as the eq_type lookup finds it
LiveRecord(serial) ==
    inventory_data[FirstPos(inventory_data, LAMBDA it : it.serial_number = serial)]

\* no other entry of the timeline of the serial is dated from d1 to d2
NothingBetween(serial, x, y) ==
    \A z \in HistoryOf(serial) :
        (z /= x /\ z /= y /\ z.assignment /= "" /\ Parses(z.date)) =>
            \/ DateOrd(z.date) < DateOrd(x.date)
            \/ DateOrd(z.date) > DateOrd(y.date)

\* C5: the timeline of a serial is the live record's (assignment, date), when
\* the date parses, together with the history entries: if the record holds
\* (a, d) absent from the history and the chronologically adjacent history
\* entry names another employee, that transfer is reported when its date is
\* inside the period.
C5_LiveRecordIsOnTheTimeline ==
    ReportRan =>
        \A serial \in Serials :
            (\E i \in DOMAIN inventory_data :
                 inventory_data[i].serial_number = serial) =>
                LET r == Entry(LiveRecord(serial).assignment, LiveRecord(serial).date)
                IN  (r.assignment /= "" /\ Parses(r.date)
                         /\ r \notin HistoryOf(serial)) =>
                        \A x \in HistoryOf(serial) :
                            (x.assignment /= "" /\ Parses(x.date)
                                 /\ x.assignment /= r.assignment) =>
                                /\ (DateOrd(x.date) < DateOrd(r.date)
                                        /\ NothingBetween(serial, x, r)
                                        /\ InWindow(r.date, transfers_start_var,
                                                    transfers_end_var)) =>
                                       Transfer(inventory_data, serial, x, r)
                                           \in Range(transfers_tree)
                                /\ (DateOrd(r.date) < DateOrd(x.date)
                                        /\ NothingBetween(serial, r, x)
                                        /\ InWindow(x.date, transfers_start_var,
                                                    transfers_end_var)) =>
                                       Transfer(inventory_data, serial, r, x)
                                           \in Range(transfers_tree)

\* C6: the transfers of the report are in ascending order of their date across
\* all serial numbers.
C6_ReportSortedByDate ==
    ReportRan =>
        \A i, j \in DOMAIN transfers_tree :
            i < j => DateOrd(transfers_tree[i].date) <= DateOrd(transfers_tree[j].date)

\* C7: the report leaves inventory, history (with the stored order of each
\* serial's entries), roster and catalog unchanged, and a second call with the
\* same period right after the first shows the identical sequence.
C7_ReportReadsOnlyAndRepeats ==
    [][(last'.op = "generate_transfers_report" /\ steps' = steps + 1) =>
          /\ UNCHANGED data_vars
          /\ last'.repeat => transfers_tree' = transfers_tree
      ]_vars

\* the second of two reports for one period, showing a transfer
C7_Witness ==
    /\ ReportDone
    /\ last.repeat
    /\ transfers_tree /= <<>>

\* C8: every transfer reported for a period is reported for every period that
\* contains it, on the same data.
C8_WiderPeriodKeepsTransfers ==
    ReportRan =>
        \A w \in Periods :
            (DateOrd(w[1]) <= DateOrd(transfers_start_var)
                 /\ DateOrd(transfers_end_var) <= DateOrd(w[2])) =>
                Range(transfers_tree) \subseteq Range(ReportFor(w[1], w[2]))

\* a report showing a transfer, with a wider period that shows one more
C8_Witness ==
    /\ ReportDone
    /\ transfers_tree /= <<>>
    /\ \E w \in Periods :
           /\ DateOrd(w[1]) <= DateOrd(transfers_start_var)
           /\ DateOrd(transfers_end_var) <= DateOrd(w[2])
           /\ Range(transfers_tree) /= Range(ReportFor(w[1], w[2]))


\* some inventory record has this equipment type
TypeReferenced(t) ==
    \E i \in DOMAIN inventory_data : inventory_data[i].equipment_type = t

\* C9: delete_equipment_type on a type that some inventory record references
\* is rejected and leaves the catalog unchanged; on a type no record
\* references, once the user confirms, the type is no longer in the catalog.
C9_TypeDeletionGuard ==
    [][(last'.op = "delete_equipment_type" /\ steps' = steps + 1) =>
          IF TypeReferenced(last'.other)
          THEN last'.outcome = "rejected" /\ equipment_types' = equipment_types
          ELSE last'.outcome /= "rejected"
                   /\ last'.other \notin Range(equipment_types')
      ]_vars

\* a deletion refused for a type of the catalog that a record references
C9_Witness ==
    /\ last.op = "delete_equipment_type"
    /\ last.outcome = "rejected"
    /\ last.other \in Range(equipment_types)
    /\ TypeReferenced(last.other)

\* some inventory record is assigned to this employee
Assigned(name) ==
    \E i \in DOMAIN inventory_data : inventory_data[i].assignment = name

\* C10: deleting an employee whose name is the assignment of some inventory
\* record is rejected and leaves the roster unchanged, through
\* delete_selected_employee and through delete_employee.
C10_EmployeeDeletionGuard ==
    [][(last'.op \in {"delete_selected_employee", "delete_employee"}
            /\ steps' = steps + 1
            /\ last'.employee /= ""
            /\ Assigned(last'.employee)) =>
          last'.outcome = "rejected" /\ employees_list' = employees_list
      ]_vars

\* a deletion refused for an employee of the roster who holds a record
C10_Witness ==
    /\ last.op \in {"delete_selected_employee", "delete_employee"}
    /\ last.outcome = "rejected"
    /\ last.employee \in Range(employees_list)
    /\ Assigned(last.employee)

----------------------------------------------------------------------------

InHistory(name) == \E e \in HistoryEntries : e.assignment = name

\* C11: an employee of the roster who is named in history entries but in no
\* record's current assignment is deleted from the roster once the user
\* confirms, and the deletion leaves every history entry and every inventory
\* record unchanged.
C11_HistoryDoesNotBlockDeletion ==
    [][(/\ last'.op \in {"delete_selected_employee", "delete_employee"}
        /\ steps' = steps + 1
        /\ last'.employee \in Range(employees_list)
        /\ InHistory(last'.employee)
        /\ ~Assigned(last'.employee)) =>
          /\ last'.outcome = "done"
          /\ last'.employee \notin Range(employees_list')
          /\ history_data' = history_data
          /\ inventory_data' = inventory_data
      ]_vars

\* an employee deleted from the roster whom a history entry still names
C11_Witness ==
    /\ last.op \in {"delete_selected_employee", "delete_employee"}
    /\ last.outcome = "done"
    /\ last.employee \notin Range(employees_list)
    /\ InHistory(last.employee)
    /\ ~Assigned(last.employee)
    /\ inventory_data /= <<>>

----------------------------------------------------------------------------

\* C12: in every reachable state each inventory record with a non-empty serial
\* number and a non-empty assignment has its current (assignment, date) pair
\* in the history of that serial number, whichever edit path produced it.
C12_RecordPairInHistory ==
    \A i \in DOMAIN inventory_data :
        (inventory_data[i].serial_number /= "" /\ inventory_data[i].assignment /= "") =>
            Entry(inventory_data[i].assignment, inventory_data[i].date)
                \in HistoryOf(inventory_data[i].serial_number)

IsPrefix(s, u) == Len(s) <= Len(u) /\ SubSeq(u, 1, Len(s)) = s

\* the history list of a serial with one employee name replaced by another
Renamed(records, old_name, new_name) ==
    [j \in DOMAIN records |->
        Entry(IF records[j].assignment = old_name THEN new_name
              ELSE records[j].assignment,
              records[j].date)]

\* C13: the history is append-only: across every operation other than an
\* employee rename the history of each serial before the operation is a
\* prefix of its history after it, and a rename changes only the assignment
\* name of the matching entries.
C13_HistoryAppendOnly ==
    [][IF last'.op = "rename_employee" /\ last'.outcome = "done"
          /\ steps' = steps + 1
       THEN \A serial \in HistoryKeys(history_data) \cup HistoryKeys(history_data') :
                get_history_for_equipment(history_data', serial)
                    = Renamed(get_history_for_equipment(history_data, serial),
                              last'.employee, last'.other)
       ELSE \A serial \in HistoryKeys(history_data) :
                IsPrefix(get_history_for_equipment(history_data, serial),
                         get_history_for_equipment(history_data', serial))
      ]_vars

\* C14: in every reachable state no two inventory records have the same
\* serial_number.
C14_UniqueSerialNumbers ==
    \A i, j \in DOMAIN inventory_data :
        i /= j => inventory_data[i].serial_number /= inventory_data[j].serial_number

\* C15: in every reachable state the equipment_type of every inventory record
\* is a member of the equipment type catalog.
C15_TypesInCatalog ==
    \A i \in DOMAIN inventory_data :
        inventory_data[i].equipment_type \in Range(equipment_types)

\* C16: a report over a valid period completes without raising for every
\* reachable history, also when a serial has two or more entries one of whose
\* dates does not parse; such entries are left out of the rows.
C16_ReportDoesNotRaise ==
    ReportRan =>
        /\ last.outcome = "done"
        /\ \A k \in DOMAIN transfers_tree : Parses(transfers_tree[k].date)

----------------------------------------------------------------------------

\* the handlers that validate what the user typed
ValidatingOps ==
    {"add_equipment", "confirm_transfer", "add_employee", "add_equipment_type",
     "rename_employee"}

\* the step hands a handler an input that the validation names as an error;
\* the catalog and the roster are those before the step
InvalidInput ==
    \/ /\ last'.op = "add_equipment"
       /\ \/ last'.other = ""
          \/ last'.serial = ""
          \/ last'.other \notin Range(equipment_types)
    \/ /\ last'.op = "confirm_transfer"
       /\ \/ last'.employee = ""
          \/ last'.date = NoDate
          \/ ~Parses(last'.date)
    \/ /\ last'.op = "add_employee"
       /\ \/ last'.employee = ""
          \/ last'.employee \in Range(employees_list)
    \/ /\ last'.op = "add_equipment_type"
       /\ \/ last'.other = ""
          \/ last'.other \in Range(equipment_types)
    \/ /\ last'.op = "rename_employee"
       /\ \/ last'.other = ""
          \/ /\ last'.other /= last'.employee
             /\ last'.other \in Range(employees_list)

\* C17: an operation given an invalid input (add_equipment with an empty
\* type, an empty serial or a type not in the catalog; confirm_transfer with
\* an empty employee or an empty or unparseable date; add_employee and
\* add_equipment_type with an empty or existing name; a rename to an empty or
\* existing name) is rejected, and whenever one of these operations is
\* rejected the in-memory inventory, history, roster and catalog are exactly
\* as before it.
C17_RejectionLeavesState ==
    [][(steps' = steps + 1 /\ last'.op \in ValidatingOps) =>
          /\ InvalidInput => last'.outcome = "rejected"
          /\ last'.outcome = "rejected" => data_vars' = data_vars
      ]_vars

\* a transfer refused for its unparseable date while there are records,
\* history entries and employees that it could have changed
C17_Witness ==
    /\ last.op = "confirm_transfer"
    /\ last.outcome = "rejected"
    /\ last.employee /= ""
    /\ last.date /= NoDate
    /\ ~Parses(last.date)
    /\ \E i \in DOMAIN inventory_data :
           /\ inventory_data[i].serial_number = last.serial
           /\ inventory_data[i].assignment /= last.employee
    /\ history_data /= <<>>

----------------------------------------------------------------------------

\* C18: when the write of inventory.json fails during add_equipment,
\* delete_selected_item or confirm_transfer, the operation counts as failed
\* and the in-memory inventory and history after it equal those before it.
C18_FailedWriteLeavesState ==
    [][(/\ steps' = steps + 1
        /\ last'.op \in {"add_equipment", "delete_selected_item", "confirm_transfer"}
        /\ last'.outcome /= "rejected"
        /\ ~last'.saved) =>
          /\ last'.outcome = "failed"
          /\ inventory_data' = inventory_data
          /\ history_data' = history_data
      ]_vars

----------------------------------------------------------------------------

\* C19: add_to_history(serial, employee, date) is idempotent: applied twice
\* in a row with the same arguments it leaves the history as after the first
\* application; it appends exactly one entry at the end of the serial's list
\* when the pair was not yet present; with an empty serial or an empty
\* employee it changes nothing.
C19_AddToHistoryIdempotent ==
    \A serial \in SerialInputs, employee \in Names \cup {""}, date \in DateInputs :
        LET once == add_to_history(history_data, serial, employee, date)
            before == get_history_for_equipment(history_data, serial)
        IN  /\ add_to_history(once, serial, employee, date) = once
            /\ (serial = "" \/ employee = "") => once = history_data
            /\ (serial /= "" /\ employee /= "") =>
                   /\ get_history_for_equipment(once, serial) =
                          IF Entry(employee, date) \in Range(before) THEN before
                          ELSE Append(before, Entry(employee, date))
                   /\ \A other \in HistoryKeys(history_data) \ {serial} :
                          get_history_for_equipment(once, other)
                              = get_history_for_equipment(history_data, other)

\* a transfer that submitted a pair the serial's history already held before
\* its last entry: add_to_history ran on it and appended nothing
C19_Witness ==
    /\ TransferDone
    /\ last.serial /= ""
    /\ LET records == get_history_for_equipment(history_data, last.serial)
       IN  /\ Len(records) >= 2
           /\ Entry(last.employee, last.date) \in Range(records)
           /\ records[Len(records)] /= Entry(last.employee, last.date)

----------------------------------------------------------------------------

\* how many elements of a list of records or entries name one of the names
Naming(s, names) == Cardinality({i \in DOMAIN s : s[i].assignment \in names})

\* C20: an employee rename preserves counts: the roster, the inventory and
\* the history of every serial have as many entries after the rename as
\* before, and the records and history entries naming the new name afterwards
\* are as many as those that named the old name or already the new name before.
C20_RenamePreservesCounts ==
    [][(last'.op = "rename_employee" /\ last'.outcome = "done"
            /\ steps' = steps + 1) =>
          LET old_name == last'.employee
              new_name == last'.other
          IN  /\ Len(employees_list') = Len(employees_list)
              /\ Len(inventory_data') = Len(inventory_data)
              /\ HistoryKeys(history_data') = HistoryKeys(history_data)
              /\ Naming(inventory_data', {new_name})
                     = Naming(inventory_data, {old_name, new_name})
              /\ \A serial \in HistoryKeys(history_data) :
                     LET before == get_history_for_equipment(history_data, serial)
                         after == get_history_for_equipment(history_data', serial)
                     IN  /\ Len(after) = Len(before)
                         /\ Naming(after, {new_name})
                                = Naming(before, {old_name, new_name})
      ]_vars

\* an accepted rename after which one serial has two history entries and the
\* inventory a record under the new name
C20_Witness ==
    /\ RenameAccepted
    /\ \E i \in DOMAIN inventory_data : inventory_data[i].assignment = last.other
    /\ \E i \in DOMAIN history_data :
           Naming(history_data[i].records, {last.other}) >= 2

----------------------------------------------------------------------------

\* C21: starting from a roster without duplicates, after any sequence of
\* add_employee, rename, delete_selected_employee and
\* load_employees_from_inventory the roster contains no name twice.
C21_RosterHasNoDuplicates == NoDuplicates(employees_list)

\* the loader has run on an inventory whose assigned employees were already
\* on the roster
C21_Witness ==
    /\ last.op = "load_employees_from_inventory"
    /\ last.outcome = "done"
    /\ Len(employees_list) >= 2
    /\ \E i \in DOMAIN inventory_data :
           inventory_data[i].assignment \in {employees_list[1], employees_list[2]}

\* C22: the created_datetime of a record is set once by add_equipment and no
\* later operation on the record (cell edit, transfer, rename, reload)
\* changes it: a step other than a deletion keeps the stamp at every
\* position of the list, an add appends a record with a stamp of its own and
\* a deletion only removes stamps.
C22_CreatedDatetimeImmutable ==
    [][LET Stamps(inv) == {inv[i].created_datetime : i \in DOMAIN inv}
       IN  IF last'.op = "delete_selected_item" /\ steps' = steps + 1
           THEN Stamps(inventory_data') \subseteq Stamps(inventory_data)
           ELSE /\ Len(inventory_data') >= Len(inventory_data)
                /\ \A i \in DOMAIN inventory_data :
                       inventory_data'[i].created_datetime
                           = inventory_data[i].created_datetime
                /\ \A i \in DOMAIN inventory_data' \ DOMAIN inventory_data :
                       /\ last'.op = "add_equipment"
                       /\ inventory_data'[i].created_datetime = last'.created
                       /\ last'.created \notin Stamps(inventory_data)
      ]_vars

\* a record added in this session whose cell was edited afterwards and which
\* still carries the stamp of its add
C22_Witness ==
    /\ last.op \in {"edit_cell_entry", "edit_cell_assignment", "confirm_transfer"}
    /\ last.outcome = "done"
    /\ last.created > 0
    /\ \E i \in DOMAIN inventory_data :
           inventory_data[i].created_datetime = last.created

----------------------------------------------------------------------------

\* C23: after any number of create_backup operations the backups directory
\* holds at most the 10 most recent backup files; older ones are removed.
C23_AtMostTenBackups == Cardinality(backups) <= 10

----------------------------------------------------------------------------

\* C25: after startup exactly one auto-save callback is pending at all
\* times: each firing runs the synchronous save and re-arms exactly one timer
\* whether or not the save succeeded, so auto-saves never overlap and an
\* auto-save always eventually fires again.
C25_OneTimerAlwaysRearmed ==
    /\ [](auto_save_pending = 1)
    /\ []<>(auto_save_runs = 0)
    /\ []<>(auto_save_runs = 1)

\* an auto-save whose write failed, with the next callback armed
C25_Witness ==
    /\ last.op = "auto_save"
    /\ last.outcome = "failed"
    /\ auto_save_pending = 1
    /\ inventory_file /= inventory_data



\* C24: with two instances on one data directory, every save, whether a
\* handler's or the timer's, replaces the file with the whole in-memory copy
\* of the instance that saves and reports no error, whatever the other
\* instance has written to the file since that copy was loaded
C24_SavesReplaceWholesale ==
    [][/\ (last'.op = "auto_save"
              => inventory_file' = inventory_data /\ last'.outcome = "done")
       /\ (inventory_file' /= inventory_file => inventory_file' = inventory_data')
       /\ (history_file' /= history_file => history_file' = history_data')
       /\ last'.outcome \in {"done", "rejected"}]_vars

\* an entry the other instance holds, which it wrote to history.json when it
\* appended it, is no longer in history.json after a save of this instance
C24_Witness ==
    /\ other_instance /= <<>>
    /\ last.op = "confirm_transfer"
    /\ last.outcome = "done"
    /\ history_file = history_data
    /\ \E i \in DOMAIN other_instance.history_data :
        \E r \in Range(other_instance.history_data[i].records) :
            ~\E k \in DOMAIN history_file :
                /\ history_file[k].serial = other_instance.history_data[i].serial
                /\ r \in Range(history_file[k].records)

\* an inventory record the other instance holds and saved is no longer in
\* inventory.json after the timer of this instance has fired
C24_WitnessAutoSave ==
    /\ other_instance /= <<>>
    /\ last.op = "auto_save"
    /\ last.outcome = "done"
    /\ \E r \in Range(other_instance.inventory_data) :
        r \notin Range(inventory_file)


\* C26: whenever the process can be killed during save_history, history.json
\* holds a complete content: it is never open for writing, and it changes
\* only by the replacement with the completely written temporary file, which
\* makes it the whole new content
C26_HistoryFileNeverPartial ==
    /\ []("history" \notin torn)
    /\ [][history_file' /= history_file
             => /\ Head(pc) = "replace"
                /\ temp_file = "complete"
                /\ history_file' = history_data]_vars

\* the process was killed while save_history was dumping into the temporary
\* file: history.json still holds the content from before the save
C26_Witness ==
    /\ killed
    /\ temp_file = "partial"
    /\ pc /= <<>>
    /\ Head(pc) = "dump_tmp"
    /\ history_file /= history_data
    /\ "history" \notin torn


\* a serial of the ledger that no inventory record carries
Orphan(inv, serial) == \A i \in DOMAIN inv : inv[i].serial_number /= serial

\* C27: deleting an equipment record changes neither the ledger in memory
\* nor history.json; a transfers report that accepted its period and the
\* refreshed history table show "-" as the type of every serial that has no
\* record, and a ledger whose dates the report can sort does not make it raise
C27_DeletionKeepsLedgerAndOrphansShowDash ==
    [][/\ (last'.op = "delete_selected_item" /\ steps' = steps + 1
              => history_data' = history_data /\ history_file' = history_file)
       /\ (last'.op = "generate_transfers_report" /\ steps' = steps + 1
              /\ last'.outcome /= "rejected"
              => /\ \A k \in DOMAIN transfers_tree' :
                     Orphan(inventory_data, transfers_tree'[k].serial)
                         => transfers_tree'[k].equipment_type = "-"
                 /\ (last'.outcome = "raised" => SortRaises(history_data)))
       /\ (last'.op = "delete_history_record" /\ last'.outcome = "done"
              /\ steps' = steps + 1
              => \A row \in full_history_tree' :
                     Orphan(inventory_data, row.serial)
                         => row.equipment_type = "-")]_vars

\* the report ran after the only record was deleted, and it shows a transfer
\* of its serial with the placeholder type
C27_Witness ==
    /\ last.op = "generate_transfers_report"
    /\ last.outcome = "done"
    /\ inventory_data = <<>>
    /\ \E k \in DOMAIN transfers_tree :
        /\ Orphan(inventory_data, transfers_tree[k].serial)
        /\ transfers_tree[k].equipment_type = "-"
        /\ \E i \in DOMAIN history_data :
               history_data[i].serial = transfers_tree[k].serial

\* the history table was refreshed after the only record was deleted
C27_WitnessHistoryView ==
    /\ last.op = "delete_history_record"
    /\ last.outcome = "done"
    /\ inventory_data = <<>>
    /\ \E row \in full_history_tree :
        Orphan(inventory_data, row.serial) /\ row.equipment_type = "-"


\* history.json holds an entry of that serial number for that assignment
Logged(file, serial, assignment) ==
    \E k \in DOMAIN file :
        /\ file[k].serial = serial
        /\ \E e \in Range(file[k].records) : e.assignment = assignment

\* C28: while a confirmed transfer, an add_equipment or an assignment cell
\* edit runs, with no write failing, inventory.json never comes to show a
\* record with a new assignment for which history.json holds no entry,
\* wherever the process is stopped
C28_HistoryWrittenBeforeInventory ==
    [][last'.op \in {"confirm_transfer", "add_equipment", "edit_cell_assignment",
                     "edit_cell_assignment_search"}
          => \A p \in DOMAIN inventory_file' :
                (/\ inventory_file'[p].serial_number /= ""
                 /\ inventory_file'[p].assignment /= ""
                 /\ \/ p \notin DOMAIN inventory_file
                    \/ inventory_file[p].assignment /= inventory_file'[p].assignment)
                => Logged(history_file', inventory_file'[p].serial_number,
                          inventory_file'[p].assignment)]_vars

\* the opposite inconsistency: the process was killed after save_history
\* and before save_data, the entry is in history.json and the record in
\* inventory.json still has the old assignment
C28_Witness ==
    /\ killed
    /\ last.op = "confirm_transfer"
    /\ pc /= <<>>
    /\ Head(pc) = "open_inventory"
    /\ Logged(history_file, last.serial, last.employee)
    /\ \E p \in DOMAIN inventory_file :
        /\ inventory_file[p].serial_number = last.serial
        /\ inventory_file[p].assignment = last.other
        /\ last.other /= last.employee


\* C29: a cell edit committed through a row of the search table, whatever
\* searches, deletions and reloads came before it, changes no record other
\* than one with the serial number that row shows: the tag of the row
\* designates that record at the time of the edit
C29_EditChangesShownRecord ==
    [][(last'.op \in {"edit_cell_entry_search", "edit_cell_assignment_search"}
           /\ steps' = steps + 1)
          => \A p \in DOMAIN inventory_data :
                 inventory_data'[p] /= inventory_data[p]
                     => inventory_data[p].serial_number = last'.serial]_vars

\* the first record with that serial number removed from the list
WithoutSerial(inv, serial) ==
    LET pos == FirstPos(inv, LAMBDA it : it.serial_number = serial)
    IN  IF pos = 0 THEN inv ELSE RemoveAt(inv, pos)

\* C30: "delete" in the context menu of the search table or of the employee
\* table reads the table transfer_selected_item reads on that tab and, once
\* confirmed, deletes the record of the row clicked there and no other
C30_DeleteTakesActiveTable ==
    [][(last'.op = "delete_selected_item" /\ steps' = steps + 1
           /\ last'.other \in {"search_tree", "employee_tree"})
          => /\ DeleteTree(TabIndex(TabOfTree(last'.other)))
                    = TransferTree(TabIndex(TabOfTree(last'.other)))
             /\ \/ last'.outcome = "cancelled" /\ inventory_data' = inventory_data
                \/ /\ last'.outcome = "done"
                   /\ inventory_data' = WithoutSerial(inventory_data, last'.serial)]_vars

====
